---- MODULE Spec2Model ----
(***************************************************************************)
(* GNSS logger with an offline buffer (GNSS_sicher.py, and the earlier    *)
(* variant GNSS_buffer_test.py).  One sequential process reads NMEA lines *)
(* from a serial port, inserts every GGA fix into a PostgreSQL table over *)
(* one psycopg2 connection, appends the fix to buffer.csv when the insert *)
(* or the commit raises, and drains buffer.csv back into the table.       *)
(*                                                                         *)
(* The environment is the network, the database session, the file system  *)
(* (save_to_buffer may fail with an I/O error), the serial port and the   *)
(* process being killed and started again.  The database session follows  *)
(* psycopg2 on PostgreSQL: the connection is not in autocommit mode, a    *)
(* statement the server refuses puts the transaction in the aborted       *)
(* state, in which every further statement is refused and commit() rolls  *)
(* back without raising; a lost connection is closed for good, and every  *)
(* later call on it raises.  The program never calls rollback() and       *)
(* connects only once, at startup.                                        *)
(*                                                                         *)
(* Units: a coordinate is in arc minutes (deg * 60 + min), a speed in     *)
(* metres per hour (knots * 1852), so both conversions are exact.         *)
(***************************************************************************)
EXTENDS Integers, Sequences, FiniteSets, Bags, TLC

\* ---------------------------------------------------------------- bounds
\* GGA fixes the main loop consumes over all runs of the process.
MaxFix == 3
\* Times the process is started (a kill or an exit is followed by a start).
MaxRuns == 3

\* ---------------------------------------------------------------- values
\* An optional value: None (Python's None, SQL NULL, an empty CSV field) or
\* a one-element sequence holding the value.
None == << >>
Some(v) == << v >>
IsNone(o) == o = << >>

NoFix == [ts |-> 0, lat |-> None, lon |-> None, alt |-> None, speed |-> None]

\* ------------------------------------------------------------ NMEA lines
\* A line after split(","): its header, the number of parts, and the parts
\* the parsers read (raw latitude/longitude as ddmm, the directions, the
\* altitude, the speed in knots).
NmeaLine(h, n, la, lad, lo, lod, al, sp) ==
    [header |-> h, n |-> n, lat |-> la, latd |-> lad, lon |-> lo, lond |-> lod,
     alt |-> al, spd |-> sp]

EmptyLine == NmeaLine("", 1, None, "", None, "", None, None)
RmcLine == NmeaLine("$GPRMC", 13, None, "", None, "", None, Some(10))
RmcNoSpeed == NmeaLine("$GPRMC", 13, None, "", None, "", None, None)
GgaFix == NmeaLine("$GPGGA", 15, Some(5230), "N", Some(1324), "E", Some(34), None)
GgaNoFix == NmeaLine("$GPGGA", 15, None, "", None, "", None, None)
GgaShort == NmeaLine("$GPGGA", 6, Some(5230), "N", None, "", None, None)
GsvLine == NmeaLine("$GPGSV", 8, None, "", None, "", None, None)

Lines == {EmptyLine, RmcLine, RmcNoSpeed, GgaFix, GgaNoFix, GgaShort, GsvLine}

\* header in ("$GPRMC", "$GNRMC")
IsRmcHeader(h) == h \in {"$GPRMC", "$GNRMC"}
\* header.endswith("GGA")
EndsWithGGA(h) == h \in {"$GPGGA", "$GNGGA"}
\* header.endswith("RMC")
EndsWithRMC(h) == h \in {"$GPRMC", "$GNRMC"}

\* convert_to_decimal: None when raw or direction is empty; else degrees and
\* minutes of ddmm, negated for S and W.
convert_to_decimal(raw, direction) ==
    IF IsNone(raw) \/ direction = "" THEN None
    ELSE LET deg == raw[1] \div 100
             minu == raw[1] - deg * 100
             dec == deg * 60 + minu
         IN  Some(IF direction \in {"S", "W"} THEN 0 - dec ELSE dec)

\* parse_gpgga: None (here: ok = FALSE) for fewer than 10 parts, else
\* (lat, lon, alt), alt None when the altitude part is no number.
parse_gpgga(line) ==
    IF line.n < 10 THEN [ok |-> FALSE, lat |-> None, lon |-> None, alt |-> None]
    ELSE [ok |-> TRUE,
          lat |-> convert_to_decimal(line.lat, line.latd),
          lon |-> convert_to_decimal(line.lon, line.lond),
          alt |-> line.alt]

\* parse_gprmc: None for fewer than 8 parts or an empty speed part, else
\* knots * 1.852 km/h.
parse_gprmc(line) ==
    IF line.n < 8 \/ IsNone(line.spd) THEN None
    ELSE Some(line.spd[1] * 1852)

\* ------------------------------------------------------------- CSV rows
\* csv.writer writes None as an empty field and a float as its text; a row
\* is the five fields.  torn marks a row of which only a part reached the
\* file.
CsvRow(fix) ==
    [ts |-> fix.ts, lat |-> fix.lat, lon |-> fix.lon, alt |-> fix.alt,
     speed |-> fix.speed, torn |-> FALSE]

\* float(row[1]) .. float(row[4]) raise ValueError on an empty field; a torn
\* row lacks fields (IndexError) or holds a cut number.
RowParses(row) ==
    /\ ~row.torn
    /\ ~IsNone(row.lat) /\ ~IsNone(row.lon) /\ ~IsNone(row.alt)
    /\ ~IsNone(row.speed)

\* The parameters of the INSERT a drain issues for a row that parses.
RowParams(row) ==
    [ts |-> row.ts, lat |-> row.lat, lon |-> row.lon, alt |-> row.alt,
     speed |-> row.speed]

AbsentFile == [exists |-> FALSE, rows |-> << >>]
FileOf(rs) == [exists |-> TRUE, rows |-> rs]

VARIABLES
    pc,             \* position of the process in the program
    caller,         \* who called flush_buffer_to_db: startup, live, periodic
    program,        \* which program runs: "sicher" or "buffer_test"
    runs,           \* times the process was started
    ser,            \* ser: "none", "open" or "closed"
    net,            \* the sink is reachable ("up") or not ("down")
    conn,           \* db: "none", "open" or "closed"
    txn,            \* the session's transaction: idle, active, aborted
    pending,        \* bag of rows inserted and not yet committed
    sink,           \* bag of rows committed to gnss_data
    bufferFile,     \* buffer.csv
    tmpFile,        \* the mkstemp file of save_to_buffer
    last_speed,     \* last_speed of the main loop
    seen,           \* history: knots of the last RMC speed read in this run
    due,            \* time.time() - last_flush >= 30
    cur,            \* the fix of the current iteration
    nextTs,         \* the next datetime.utcnow()
    rows,           \* flush_buffer_to_db: rows
    idx,            \* flush_buffer_to_db: position of the for loop
    remaining,      \* flush_buffer_to_db: remaining
    success_count,  \* flush_buffer_to_db: success_count
    success,        \* flush_buffer_to_db of GNSS_buffer_test.py: success
    \* history, read by the properties only
    pre,            \* buffer.csv when the running save or drain began
    drain,          \* what happened in the running drain
    lastSaved,      \* ts of the fix save_to_buffer has just returned for
    commitFailed,   \* a commit raised on the handle since it was opened
    killed,         \* the process was killed at some point
    crash           \* where the last kill hit, until the next start

vars == << pc, caller, program, runs, ser, net, conn, txn, pending, sink,
           bufferFile, tmpFile, last_speed, seen, due, cur, nextTs, rows, idx,
           remaining, success_count, success, pre, drain, lastSaved,
           commitFailed, killed, crash >>

dbVars == << conn, txn, pending, sink >>
flushVars == << rows, idx, remaining, success_count, success >>
loopVars == << last_speed, seen, due, cur, nextTs >>
envVars == << program, ser, net, runs, killed, crash >>

\* down: the sink was unreachable at some step of the drain; closed0,
\* aborted0: the connection was closed, the transaction aborted, when the
\* drain began; own: the rows that failed by themselves (they do not parse,
\* or the server refused their INSERT); ok: the rows whose INSERT was
\* executed; commit: "none", "ok" or "raised".
NoDrain ==
    [down |-> FALSE, closed0 |-> FALSE, aborted0 |-> FALSE, own |-> {},
     ok |-> {}, commit |-> "none"]
NoCrash == [at |-> "", pre |-> AbsentFile, fix |-> NoFix, failed |-> << >>]

InitOf(prog) ==
    /\ pc = "stopped"
    /\ caller = "none"
    /\ program = prog
    /\ runs = 0
    /\ ser = "none"
    /\ seen = None
    /\ net = "up"
    /\ conn = "none"
    /\ txn = "idle"
    /\ pending = EmptyBag
    /\ sink = EmptyBag
    /\ bufferFile = AbsentFile
    /\ tmpFile = AbsentFile
    /\ last_speed = None
    /\ due = FALSE
    /\ cur = NoFix
    /\ nextTs = 1
    /\ rows = << >>
    /\ idx = 0
    /\ remaining = << >>
    /\ success_count = 0
    /\ success = TRUE
    /\ pre = AbsentFile
    /\ drain = NoDrain
    /\ lastSaved = 0
    /\ commitFailed = FALSE
    /\ killed = FALSE
    /\ crash = NoCrash

Init == InitOf("sicher")

\* ------------------------------------------------------ database session
\* What the server may answer to a statement it receives: it runs it, or it
\* refuses it (a constraint, a timeout, a deadlock).
ServerAnswers ==
    IF conn = "open" /\ net = "up" /\ txn # "aborted" THEN BOOLEAN ELSE {TRUE}

\* cursor.execute raises: on a closed connection, on a connection that is
\* lost, in an aborted transaction, or when the server refuses the statement.
ExecRaises(srvOk) ==
    conn # "open" \/ net = "down" \/ txn = "aborted" \/ ~srvOk

\* cursor.execute(INSERT ..., params).
Execute(params, srvOk) ==
    /\ sink' = sink
    /\ IF conn # "open"
       THEN UNCHANGED << conn, txn, pending >>
       ELSE IF net = "down"
       THEN conn' = "closed" /\ txn' = "idle" /\ pending' = EmptyBag
       ELSE IF txn = "aborted"
       THEN UNCHANGED << conn, txn, pending >>
       ELSE IF ~srvOk
       THEN conn' = conn /\ txn' = "aborted" /\ pending' = EmptyBag
       ELSE conn' = conn /\ txn' = "active"
            /\ pending' = pending (+) SetToBag({params})

\* db.commit() raises on a closed or lost connection only.
CommitRaises == conn # "open" \/ net = "down"

\* db.commit(): makes the pending rows durable; in an aborted transaction
\* the server answers COMMIT with ROLLBACK and nothing is raised.
Commit ==
    IF conn # "open"
    THEN UNCHANGED << conn, txn, pending, sink >>
    ELSE IF net = "down"
    THEN conn' = "closed" /\ txn' = "idle" /\ pending' = EmptyBag /\ sink' = sink
    ELSE /\ conn' = conn
         /\ txn' = "idle"
         /\ pending' = EmptyBag
         /\ sink' = IF txn = "aborted" THEN sink ELSE sink (+) pending


\* ------------------------------------------------- GNSS_sicher.py: startup
ResetLocals ==
    /\ last_speed' = None
    /\ seen' = None
    /\ due' = FALSE
    /\ cur' = NoFix
    /\ rows' = << >>
    /\ idx' = 0
    /\ remaining' = << >>
    /\ success_count' = 0
    /\ success' = TRUE
    /\ pre' = AbsentFile
    /\ drain' = NoDrain

\* __main__ up to the first flush: last_flush = now, serial.Serial, which
\* raises when the port cannot be opened, then psycopg2.connect, which
\* raises when the sink is unreachable (either exception reaches "except
\* Exception", or in GNSS_buffer_test.py no handler, and the finally block).
Start ==
    /\ pc = "stopped"
    /\ runs < MaxRuns
    /\ runs' = runs + 1
    /\ ResetLocals
    /\ crash' = NoCrash
    /\ tmpFile' = AbsentFile
    /\ commitFailed' = FALSE
    /\ txn' = "idle"
    /\ pending' = EmptyBag
    /\ sink' = sink
    /\ \E serOk \in BOOLEAN :
       /\ ser' = IF serOk THEN "open" ELSE "none"
       /\ IF serOk /\ net = "up"
          THEN conn' = "open" /\ pc' = "flush_read" /\ caller' = "startup"
          ELSE conn' = "none" /\ pc' = "finally" /\ caller' = "none"
    /\ UNCHANGED << program, net, bufferFile, nextTs, lastSaved, killed >>

\* ------------------------------------ GNSS_sicher.py: flush_buffer_to_db
\* The file is absent or holds no row: return.  Else read the rows.
FlushRead ==
    /\ pc = "flush_read"
    /\ IF ~bufferFile.exists \/ bufferFile.rows = << >>
       THEN /\ pc' = "flush_exit"
            /\ UNCHANGED flushVars
       ELSE /\ pc' = "flush_row"
            /\ rows' = bufferFile.rows
            /\ idx' = 1
            /\ remaining' = << >>
            /\ success_count' = 0
            /\ success' = TRUE
    /\ lastSaved' = 0
    /\ pre' = bufferFile
    /\ drain' = [NoDrain EXCEPT !.down = (net = "down"),
                                !.closed0 = (conn # "open"),
                                !.aborted0 = (txn = "aborted")]
    /\ UNCHANGED << caller, dbVars, bufferFile, tmpFile, loopVars, envVars,
                    commitFailed >>

\* Where the for loop goes after row idx.
AfterRow(count) ==
    IF idx < Len(rows) THEN "flush_row"
    ELSE IF count > 0 THEN "flush_commit" ELSE "flush_exit"

\* One pass of the for loop: the floats are converted first, then the INSERT
\* is executed; any exception puts the row in remaining.
FlushRow ==
    /\ pc = "flush_row"
    /\ LET row == rows[idx] IN
       IF ~RowParses(row)
       THEN /\ remaining' = Append(remaining, row)
            /\ success_count' = success_count
            /\ pc' = AfterRow(success_count)
            /\ drain' = [drain EXCEPT !.own = @ \cup {row.ts},
                                      !.down = @ \/ net = "down"]
            /\ UNCHANGED dbVars
       ELSE \E srvOk \in ServerAnswers :
            /\ Execute(RowParams(row), srvOk)
            /\ IF ExecRaises(srvOk)
               THEN /\ remaining' = Append(remaining, row)
                    /\ success_count' = success_count
                    /\ pc' = AfterRow(success_count)
               ELSE /\ remaining' = remaining
                    /\ success_count' = success_count + 1
                    /\ pc' = AfterRow(success_count + 1)
            /\ drain' = [drain EXCEPT
                           !.own = IF srvOk THEN @ ELSE @ \cup {row.ts},
                           !.ok = IF ExecRaises(srvOk) THEN @
                                  ELSE @ \cup {row.ts},
                           !.down = @ \/ net = "down"]
    /\ idx' = idx + 1
    /\ rows' = rows
    /\ success' = success
    /\ UNCHANGED << caller, bufferFile, tmpFile, loopVars, envVars, pre,
                    lastSaved, commitFailed >>

\* A variant of FlushCommit with the commit wrapped in a try block that
\* swallows the exception, so that the rewrite follows a failed commit.
FlushCommitSwallowsRaise ==
    /\ pc = "flush_commit"
    /\ Commit
    /\ pc' = "flush_trunc"
    /\ commitFailed' = (commitFailed \/ CommitRaises)
    /\ drain' = [drain EXCEPT
                   !.commit = IF CommitRaises THEN "raised" ELSE "ok",
                   !.down = @ \/ net = "down"]
    /\ UNCHANGED << caller, bufferFile, tmpFile, loopVars, envVars, flushVars,
                    pre, lastSaved >>

\* if success_count > 0: db.commit(); an exception leaves the function.
FlushCommit ==
    /\ pc = "flush_commit"
    /\ Commit
    /\ pc' = IF CommitRaises THEN "flush_raise" ELSE "flush_trunc"
    /\ commitFailed' = (commitFailed \/ CommitRaises)
    /\ drain' = [drain EXCEPT
                   !.commit = IF CommitRaises THEN "raised" ELSE "ok",
                   !.down = @ \/ net = "down"]
    /\ UNCHANGED << caller, bufferFile, tmpFile, loopVars, envVars, flushVars,
                    pre, lastSaved >>

\* open(BUFFER_FILE, "w") truncates buffer.csv in place.
FlushTruncate ==
    /\ pc = "flush_trunc"
    /\ bufferFile' = FileOf(<< >>)
    /\ pc' = "flush_write"
    /\ UNCHANGED << caller, dbVars, tmpFile, loopVars, envVars, flushVars,
                    pre, drain, lastSaved, commitFailed >>

\* writer.writerows(remaining), and the file is closed.
FlushWrite ==
    /\ pc = "flush_write"
    /\ bufferFile' = FileOf(remaining)
    /\ pc' = "flush_exit"
    /\ UNCHANGED << caller, dbVars, tmpFile, loopVars, envVars, flushVars,
                    pre, drain, lastSaved, commitFailed >>

\* flush_buffer_to_db returns to its caller: the startup call (line 150),
\* the call after a live insert (line 195), the periodic call (line 203),
\* which then sets last_flush.
FlushReturn ==
    /\ pc = "flush_exit"
    /\ pc' = IF caller = "live" THEN "periodic" ELSE "loop"
    /\ due' = IF caller = "periodic" THEN FALSE ELSE due
    /\ caller' = "none"
    /\ rows' = << >>
    /\ idx' = 0
    /\ remaining' = << >>
    /\ success_count' = 0
    /\ success' = TRUE
    /\ pre' = AbsentFile
    /\ drain' = NoDrain
    /\ UNCHANGED << dbVars, bufferFile, tmpFile, last_speed, seen, cur,
                    nextTs, envVars, lastSaved, commitFailed >>

\* An exception of flush_buffer_to_db reaches the handler around its call:
\* "except Exception as db_err" of the live insert (line 197), which buffers
\* the fix, or "except Exception" of the main program (line 209).
FlushRaise ==
    /\ pc = "flush_raise"
    /\ pc' = IF caller = "live" THEN "save" ELSE "finally"
    /\ caller' = "none"
    /\ rows' = << >>
    /\ idx' = 0
    /\ remaining' = << >>
    /\ success_count' = 0
    /\ success' = TRUE
    /\ pre' = AbsentFile
    /\ drain' = NoDrain
    /\ UNCHANGED << dbVars, bufferFile, tmpFile, loopVars, envVars, lastSaved,
                    commitFailed >>


\* ------------------------------------------- GNSS_sicher.py: the main loop
\* A variant of FixOf without the default: speed = last_speed, as in
\* GNSS_buffer_test.py.
FixOfNoDefault(data) ==
    [ts |-> nextTs, lat |-> data.lat, lon |-> data.lon, alt |-> data.alt,
     speed |-> last_speed]

\* The fix of a GGA line that parsed: the speed is last_speed, 0.0 when no
\* speed was seen yet.
FixOf(data) ==
    [ts |-> nextTs, lat |-> data.lat, lon |-> data.lon, alt |-> data.alt,
     speed |-> IF IsNone(last_speed) THEN Some(0) ELSE last_speed]

\* ser.readline() and the dispatch on the header.  An empty line, an RMC
\* line and a GGA line that does not parse "continue" (the periodic check
\* is skipped); a GGA line that parses goes to the insert; any other line
\* goes to the periodic check.
ReadLine ==
    /\ pc = "loop"
    /\ \E line \in Lines :
       /\ seen' = IF EndsWithRMC(line.header) /\ ~IsNone(line.spd)
                  THEN line.spd ELSE seen
       /\ IF line.header = ""
          THEN UNCHANGED << pc, last_speed, cur, nextTs >>
          ELSE IF IsRmcHeader(line.header)
          THEN /\ last_speed' = IF IsNone(parse_gprmc(line)) THEN last_speed
                                ELSE parse_gprmc(line)
               /\ UNCHANGED << pc, cur, nextTs >>
          ELSE IF EndsWithGGA(line.header)
          THEN IF ~parse_gpgga(line).ok
               THEN UNCHANGED << pc, last_speed, cur, nextTs >>
               ELSE /\ nextTs <= MaxFix
                    /\ cur' = FixOf(parse_gpgga(line))
                    /\ nextTs' = nextTs + 1
                    /\ pc' = "live_execute"
                    /\ last_speed' = last_speed
          ELSE /\ pc' = "periodic"
               /\ UNCHANGED << last_speed, cur, nextTs >>
    /\ lastSaved' = 0
    /\ pre' = AbsentFile
    /\ UNCHANGED << caller, dbVars, bufferFile, tmpFile, due, envVars,
                    flushVars, drain, commitFailed >>

\* cursor.execute(INSERT ..., (timestamp, lat, lon, alt, speed)); an
\* exception goes to save_to_buffer.
LiveExecute ==
    /\ pc = "live_execute"
    /\ \E srvOk \in ServerAnswers :
       /\ Execute(cur, srvOk)
       /\ pc' = IF ExecRaises(srvOk) THEN "save" ELSE "live_commit"
    /\ UNCHANGED << caller, bufferFile, tmpFile, loopVars, envVars, flushVars,
                    pre, drain, lastSaved, commitFailed >>

\* A variant of LiveCommit without the call of flush_buffer_to_db after the
\* commit: the loop goes on to the periodic check.
LiveCommitNoDrain ==
    /\ pc = "live_commit"
    /\ Commit
    /\ pc' = IF CommitRaises THEN "save" ELSE "periodic"
    /\ caller' = "none"
    /\ commitFailed' = (commitFailed \/ CommitRaises)
    /\ UNCHANGED << bufferFile, tmpFile, loopVars, envVars, flushVars, pre,
                    drain, lastSaved >>

\* db.commit(), then flush_buffer_to_db inside the same try block; an
\* exception of the commit goes to save_to_buffer.
LiveCommit ==
    /\ pc = "live_commit"
    /\ Commit
    /\ pc' = IF CommitRaises THEN "save" ELSE "flush_read"
    /\ caller' = IF CommitRaises THEN "none" ELSE "live"
    /\ commitFailed' = (commitFailed \/ CommitRaises)
    /\ UNCHANGED << bufferFile, tmpFile, loopVars, envVars, flushVars, pre,
                    drain, lastSaved >>

\* if time.time() - last_flush >= 30: flush_buffer_to_db(cursor, db).
Periodic ==
    /\ pc = "periodic"
    /\ pc' = IF due THEN "flush_read" ELSE "loop"
    /\ caller' = IF due THEN "periodic" ELSE "none"
    /\ UNCHANGED << dbVars, bufferFile, tmpFile, loopVars, envVars, flushVars,
                    pre, drain, lastSaved, commitFailed >>

\* --------------------------------------- GNSS_sicher.py: save_to_buffer
\* What the temporary file holds when it is closed: the new row first, then
\* the lines of the old buffer.csv.
SaveContent(fix, old) == << CsvRow(fix) >> \o old

\* What of the content may be on disk before the file is closed: nothing, a
\* part of the first row, or all rows but a part of the last.
PartialContents(full) ==
    { << >> } \cup
    { SubSeq(full, 1, k) \o << [full[k + 1] EXCEPT !.torn = TRUE] >> :
        k \in {0, Len(full) - 1} }

\* tempfile.mkstemp(dir=".", prefix=BUFFER_FILE): a new, empty file.
SaveMkstemp ==
    /\ pc = "save"
    /\ tmpFile' = FileOf(<< >>)
    /\ pre' = bufferFile
    /\ pc' = "save_write"
    /\ UNCHANGED << caller, dbVars, bufferFile, loopVars, envVars, flushVars,
                    drain, lastSaved, commitFailed >>

\* A variant of SaveWrite that writes to buffer.csv itself instead of the
\* temporary file.
SaveWriteInPlace ==
    /\ pc = "save_write"
    /\ \E part \in PartialContents(SaveContent(cur, bufferFile.rows)) :
       bufferFile' = FileOf(part)
    /\ pc' = "save_close"
    /\ UNCHANGED << caller, dbVars, tmpFile, loopVars, envVars, flushVars,
                    pre, drain, lastSaved, commitFailed >>

\* writer.writerow and the copy loop write into the file object's buffer; a
\* part of it may reach the temporary file.
SaveWrite ==
    /\ pc = "save_write"
    /\ \E part \in PartialContents(SaveContent(cur, bufferFile.rows)) :
       tmpFile' = FileOf(part)
    /\ pc' = "save_close"
    /\ UNCHANGED << caller, dbVars, bufferFile, loopVars, envVars, flushVars,
                    pre, drain, lastSaved, commitFailed >>

\* The with block ends: the temporary file is flushed and closed.
SaveClose ==
    /\ pc = "save_close"
    /\ tmpFile' = FileOf(SaveContent(cur, bufferFile.rows))
    /\ pc' = "save_replace"
    /\ UNCHANGED << caller, dbVars, bufferFile, loopVars, envVars, flushVars,
                    pre, drain, lastSaved, commitFailed >>

\* A variant of SaveReplace with the arguments of os.replace exchanged: the
\* canonical file is moved onto the temporary name.
SaveReplaceSwapped ==
    /\ pc = "save_replace"
    /\ bufferFile' = AbsentFile
    /\ tmpFile' = IF bufferFile.exists THEN bufferFile ELSE tmpFile
    /\ lastSaved' = cur.ts
    /\ pc' = "periodic"
    /\ UNCHANGED << caller, dbVars, loopVars, envVars, flushVars, pre, drain,
                    commitFailed >>

\* os.replace(tmp_path, BUFFER_FILE), and save_to_buffer returns to the
\* handler, after which the loop reaches the periodic check.
SaveReplace ==
    /\ pc = "save_replace"
    /\ bufferFile' = tmpFile
    /\ tmpFile' = AbsentFile
    /\ lastSaved' = cur.ts
    /\ pc' = "periodic"
    /\ UNCHANGED << caller, dbVars, loopVars, envVars, flushVars, pre, drain,
                    commitFailed >>

\* An I/O error in save_to_buffer (mkstemp, a write, the close or
\* os.replace raises OSError: disk full, read-only directory).  The call is
\* in the handler of the live insert (line 199), so the exception reaches
\* "except Exception" of the main program (line 209) and the finally block.
SaveRaise ==
    /\ pc \in {"save", "save_write", "save_close", "save_replace"}
    /\ pc' = "finally"
    /\ UNCHANGED << caller, dbVars, bufferFile, tmpFile, loopVars, envVars,
                    flushVars, pre, drain, lastSaved, commitFailed >>

\* ------------------------------------------------ exit and environment
\* A variant of Finally that closes the cursor and the connection and not
\* the serial port.
FinallyLeavesSerialOpen ==
    /\ pc = "finally"
    /\ pc' = "stopped"
    /\ ser' = ser
    /\ conn' = "none"
    /\ txn' = "idle"
    /\ pending' = EmptyBag
    /\ caller' = "none"
    /\ ResetLocals
    /\ commitFailed' = FALSE
    /\ UNCHANGED << sink, bufferFile, tmpFile, nextTs, program, net, runs,
                    killed, crash, lastSaved >>

\* The finally block: ser, cursor and db are closed when they are not None;
\* the server rolls back what the session had not committed.
Finally ==
    /\ pc = "finally"
    /\ pc' = "stopped"
    /\ ser' = IF ser = "open" THEN "closed" ELSE ser
    /\ conn' = "none"
    /\ txn' = "idle"
    /\ pending' = EmptyBag
    /\ caller' = "none"
    /\ ResetLocals
    /\ commitFailed' = FALSE
    /\ UNCHANGED << sink, bufferFile, tmpFile, nextTs, program, net, runs,
                    killed, crash, lastSaved >>

\* KeyboardInterrupt while the loop waits in ser.readline().
Interrupt ==
    /\ pc = "loop"
    /\ pc' = "finally"
    /\ UNCHANGED << caller, dbVars, bufferFile, tmpFile, loopVars, envVars,
                    flushVars, pre, drain, lastSaved, commitFailed >>

\* The process is killed (SIGKILL, power of the board stays on): its memory
\* is gone, the files stay as they are, the server drops the session.
Crash ==
    /\ pc \notin {"stopped"}
    /\ pc' = "stopped"
    /\ crash' = [at |-> pc, pre |-> pre, fix |-> cur, failed |-> remaining]
    /\ killed' = TRUE
    /\ ser' = "none"
    /\ conn' = "none"
    /\ txn' = "idle"
    /\ pending' = EmptyBag
    /\ caller' = "none"
    /\ ResetLocals
    /\ commitFailed' = FALSE
    /\ UNCHANGED << sink, bufferFile, tmpFile, nextTs, program, net, runs,
                    lastSaved >>

\* 30 seconds have passed since last_flush.  The loop reads the clock at the
\* periodic check only, so the step is taken where the loop can next see it.
Tick ==
    /\ pc \in {"loop", "periodic"}
    /\ ~due
    /\ due' = TRUE
    /\ UNCHANGED << pc, caller, dbVars, bufferFile, tmpFile, last_speed, seen,
                    cur, nextTs, envVars, flushVars, pre, drain, lastSaved,
                    commitFailed >>

\* The sink becomes unreachable.
Outage ==
    /\ net = "up"
    /\ net' = "down"
    /\ UNCHANGED << pc, caller, dbVars, bufferFile, tmpFile, loopVars, program,
                    ser, runs, killed, crash, flushVars, pre, drain, lastSaved,
                    commitFailed >>

\* The sink is reachable again.
Restore ==
    /\ net = "down"
    /\ net' = "up"
    /\ UNCHANGED << pc, caller, dbVars, bufferFile, tmpFile, loopVars, program,
                    ser, runs, killed, crash, flushVars, pre, drain, lastSaved,
                    commitFailed >>

Next ==
    \/ Start \/ FlushRead \/ FlushRow \/ FlushCommit \/ FlushTruncate
    \/ FlushWrite \/ FlushReturn \/ FlushRaise
    \/ ReadLine \/ LiveExecute \/ LiveCommit \/ Periodic
    \/ SaveMkstemp \/ SaveWrite \/ SaveClose \/ SaveReplace \/ SaveRaise
    \/ Finally \/ Interrupt \/ Crash \/ Tick \/ Outage \/ Restore

Spec == Init /\ [][Next]_vars


\* ------------------------------------ GNSS_buffer_test.py (the variant)
\* The variant's startup, live insert and commit, finally block and its
\* environment are those of GNSS_sicher.py (Start, LiveExecute, LiveCommit,
\* Finally, Interrupt, Crash, Outage, Restore); its main loop has no
\* periodic flush, stores last_speed as it is (None before the first RMC
\* speed), appends to buffer.csv in place and stops a drain at the first row
\* that fails.

\* The fix of a GGA line that parsed: speed = last_speed.
BT_FixOf(data) ==
    [ts |-> nextTs, lat |-> data.lat, lon |-> data.lon, alt |-> data.alt,
     speed |-> last_speed]

\* ser.readline() and the dispatch on the header.
BT_ReadLine ==
    /\ pc = "loop"
    /\ \E line \in Lines :
       /\ seen' = IF EndsWithRMC(line.header) /\ ~IsNone(line.spd)
                  THEN line.spd ELSE seen
       /\ IF line.header = ""
          THEN UNCHANGED << pc, last_speed, cur, nextTs >>
          ELSE IF EndsWithRMC(line.header)
          THEN /\ last_speed' = IF IsNone(parse_gprmc(line)) THEN last_speed
                                ELSE parse_gprmc(line)
               /\ UNCHANGED << pc, cur, nextTs >>
          ELSE IF EndsWithGGA(line.header) /\ parse_gpgga(line).ok
          THEN /\ nextTs <= MaxFix
               /\ cur' = BT_FixOf(parse_gpgga(line))
               /\ nextTs' = nextTs + 1
               /\ pc' = "live_execute"
               /\ last_speed' = last_speed
          ELSE UNCHANGED << pc, last_speed, cur, nextTs >>
    /\ lastSaved' = 0
    /\ pre' = AbsentFile
    /\ UNCHANGED << caller, dbVars, bufferFile, tmpFile, due, envVars,
                    flushVars, drain, commitFailed >>

\* A variant of BT_FlushRead without "if not rows: return": over an existing
\* file without rows the for loop does nothing, success stays True and the
\* commit follows.
BT_FlushReadNoRowsCheck ==
    /\ pc = "flush_read"
    /\ IF ~bufferFile.exists
       THEN /\ pc' = "flush_exit"
            /\ UNCHANGED flushVars
       ELSE /\ pc' = IF bufferFile.rows = << >> THEN "flush_commit"
                     ELSE "flush_row"
            /\ rows' = bufferFile.rows
            /\ idx' = 1
            /\ success' = TRUE
            /\ UNCHANGED << remaining, success_count >>
    /\ lastSaved' = 0
    /\ pre' = bufferFile
    /\ drain' = [NoDrain EXCEPT !.down = (net = "down"),
                                !.closed0 = (conn # "open"),
                                !.aborted0 = (txn = "aborted")]
    /\ UNCHANGED << caller, dbVars, bufferFile, tmpFile, loopVars, envVars,
                    commitFailed >>

\* flush_buffer_to_db: the file is absent or holds no row: return.  Else
\* read the rows; success = True.
BT_FlushRead ==
    /\ pc = "flush_read"
    /\ IF ~bufferFile.exists \/ bufferFile.rows = << >>
       THEN /\ pc' = "flush_exit"
            /\ UNCHANGED flushVars
       ELSE /\ pc' = "flush_row"
            /\ rows' = bufferFile.rows
            /\ idx' = 1
            /\ success' = TRUE
            /\ UNCHANGED << remaining, success_count >>
    /\ lastSaved' = 0
    /\ pre' = bufferFile
    /\ drain' = [NoDrain EXCEPT !.down = (net = "down"),
                                !.closed0 = (conn # "open"),
                                !.aborted0 = (txn = "aborted")]
    /\ UNCHANGED << caller, dbVars, bufferFile, tmpFile, loopVars, envVars,
                    commitFailed >>

\* One pass of the for loop: an exception sets success = False and breaks;
\* after the last row, "if success" commits.
BT_FlushRow ==
    /\ pc = "flush_row"
    /\ LET row == rows[idx] IN
       IF ~RowParses(row)
       THEN /\ success' = FALSE
            /\ pc' = "flush_exit"
            /\ drain' = [drain EXCEPT !.own = @ \cup {row.ts},
                                      !.down = @ \/ net = "down"]
            /\ UNCHANGED dbVars
       ELSE \E srvOk \in ServerAnswers :
            /\ Execute(RowParams(row), srvOk)
            /\ success' = ~ExecRaises(srvOk)
            /\ pc' = IF ExecRaises(srvOk) THEN "flush_exit"
                     ELSE IF idx < Len(rows) THEN "flush_row"
                     ELSE "flush_commit"
            /\ drain' = [drain EXCEPT
                           !.own = IF srvOk THEN @ ELSE @ \cup {row.ts},
                           !.ok = IF ExecRaises(srvOk) THEN @
                                  ELSE @ \cup {row.ts},
                           !.down = @ \/ net = "down"]
    /\ idx' = idx + 1
    /\ UNCHANGED << caller, bufferFile, tmpFile, loopVars, envVars, rows,
                    remaining, success_count, pre, lastSaved, commitFailed >>

\* if success: db.commit(); an exception leaves the function.
BT_FlushCommit ==
    /\ pc = "flush_commit"
    /\ Commit
    /\ pc' = IF CommitRaises THEN "flush_raise" ELSE "flush_trunc"
    /\ commitFailed' = (commitFailed \/ CommitRaises)
    /\ drain' = [drain EXCEPT
                   !.commit = IF CommitRaises THEN "raised" ELSE "ok",
                   !.down = @ \/ net = "down"]
    /\ UNCHANGED << caller, bufferFile, tmpFile, loopVars, envVars, flushVars,
                    pre, lastSaved >>

\* open(BUFFER_FILE, "w").close() empties buffer.csv.
BT_FlushTruncate ==
    /\ pc = "flush_trunc"
    /\ bufferFile' = FileOf(<< >>)
    /\ pc' = "flush_exit"
    /\ UNCHANGED << caller, dbVars, tmpFile, loopVars, envVars, flushVars,
                    pre, drain, lastSaved, commitFailed >>

\* flush_buffer_to_db returns to the startup call (line 131) or to the call
\* after a live insert (line 174); both go on with the loop.
BT_FlushReturn ==
    /\ pc = "flush_exit"
    /\ pc' = "loop"
    /\ caller' = "none"
    /\ rows' = << >>
    /\ idx' = 0
    /\ success' = TRUE
    /\ pre' = AbsentFile
    /\ drain' = NoDrain
    /\ UNCHANGED << dbVars, bufferFile, tmpFile, loopVars, envVars, remaining,
                    success_count, lastSaved, commitFailed >>

\* An exception of flush_buffer_to_db reaches "except Exception as db_err"
\* of the live insert (line 176), which buffers the fix, or, from the startup
\* call, the finally block.
BT_FlushRaise ==
    /\ pc = "flush_raise"
    /\ pc' = IF caller = "live" THEN "save" ELSE "finally"
    /\ caller' = "none"
    /\ rows' = << >>
    /\ idx' = 0
    /\ success' = TRUE
    /\ pre' = AbsentFile
    /\ drain' = NoDrain
    /\ UNCHANGED << dbVars, bufferFile, tmpFile, loopVars, envVars, remaining,
                    success_count, lastSaved, commitFailed >>

\* save_to_buffer: open(BUFFER_FILE, "a") creates the file when absent.
BT_SaveOpen ==
    /\ pc = "save"
    /\ bufferFile' = FileOf(bufferFile.rows)
    /\ pre' = bufferFile
    /\ pc' = "save_write"
    /\ UNCHANGED << caller, dbVars, tmpFile, loopVars, envVars, flushVars,
                    drain, lastSaved, commitFailed >>

\* writer.writerow appends the row when the file is closed; the row is one
\* short write.
BT_SaveWrite ==
    /\ pc = "save_write"
    /\ bufferFile' = FileOf(Append(bufferFile.rows, CsvRow(cur)))
    /\ lastSaved' = cur.ts
    /\ pre' = AbsentFile
    /\ pc' = "loop"
    /\ UNCHANGED << caller, dbVars, tmpFile, loopVars, envVars, flushVars,
                    drain, commitFailed >>

\* An I/O error in save_to_buffer (open or the write raises OSError).  The
\* call is in the handler of the live insert (line 178) inside the try of
\* the loop body, so "except Exception" (line 186) prints, sleeps and the
\* loop goes on.
BT_SaveRaise ==
    /\ pc \in {"save", "save_write"}
    /\ pc' = "loop"
    /\ pre' = AbsentFile
    /\ UNCHANGED << caller, dbVars, bufferFile, tmpFile, loopVars, envVars,
                    flushVars, drain, lastSaved, commitFailed >>

InitTest == InitOf("buffer_test")

NextTest ==
    \/ Start \/ BT_FlushRead \/ BT_FlushRow \/ BT_FlushCommit
    \/ BT_FlushTruncate \/ BT_FlushReturn \/ BT_FlushRaise
    \/ BT_ReadLine \/ LiveExecute \/ LiveCommit
    \/ BT_SaveOpen \/ BT_SaveWrite \/ BT_SaveRaise
    \/ Finally \/ Interrupt \/ Crash \/ Outage \/ Restore

SpecTest == InitTest /\ [][NextTest]_vars

\* Either program, chosen when the system is installed.
InitAll == \E prog \in {"sicher", "buffer_test"} : InitOf(prog)

NextAll ==
    \/ program = "sicher" /\ Next
    \/ program = "buffer_test" /\ NextTest

SpecAll == InitAll /\ [][NextAll]_vars


\* ------------------------------------------------------------ properties
\* buffer.csv (or any file) holds a complete entry for the fix stamped t.
InFile(f, t) == \E i \in 1 .. Len(f.rows) : f.rows[i].ts = t /\ ~f.rows[i].torn

\* gnss_data holds a committed row for the fix stamped t.
Committed(t) == \E r \in BagToSet(sink) : r.ts = t

\* The rows of rs whose fix is not in S, in their order.
RowsNotIn(rs, S) == LET Keep(r) == r.ts \notin S IN SelectSeq(rs, Keep)

\* The rows of rs whose fix is in S, in their order.
RowsIn(rs, S) == LET Keep(r) == r.ts \in S IN SelectSeq(rs, Keep)

\* The positions inside save_to_buffer after mkstemp.
SaveSteps == {"save_write", "save_close", "save_replace"}

\* C1 (No-loss-while-buffered): once save_to_buffer has returned for a fix,
\* buffer.csv holds a complete entry for it; this stays so when the process
\* is killed right after the rename and started again, up to the moment the
\* startup drain reads the file.
C1_NoLossWhileBuffered == lastSaved # 0 => InFile(bufferFile, lastSaved)

\* The process was killed right after a save_to_buffer returned and has been
\* started again; the startup drain is about to read the file.
C1_Witness ==
    lastSaved # 0 /\ killed /\ runs = 2 /\ pc = "flush_read"

\* C2 (No row loss): between two loop iterations, the process never having
\* been killed, every fix the loop has consumed is committed in the sink or
\* present as an entry of buffer.csv.
C2_NoRowLoss ==
    (pc = "loop" /\ ~killed) =>
        \A t \in 1 .. (nextTs - 1) : Committed(t) \/ InFile(bufferFile, t)

\* C3 (No duplicate commit): the process never having been killed, no fix
\* is committed to the sink twice, and save_to_buffer is not entered for a
\* fix whose live insert and commit succeeded.
C3_NoDuplicateCommit ==
    ~killed =>
        /\ \A r \in BagToSet(sink) : CopiesIn(r, sink) = 1
        /\ pc = "save" => ~Committed(cur.ts)

\* C4 (Atomic append): while save_to_buffer runs, and when the process is
\* killed at any of its steps, buffer.csv is as it was when save_to_buffer
\* began (absent, or exactly its previous entries); once the rename is done
\* it holds the complete new entry followed by the previous entries.
C4_AtomicAppend ==
    /\ pc \in SaveSteps => bufferFile = pre
    /\ crash.at \in SaveSteps => bufferFile = crash.pre
    /\ (pc = "periodic" /\ lastSaved # 0) =>
           bufferFile = FileOf(<< CsvRow(cur) >> \o pre.rows)
    /\ (crash.at = "periodic" /\ lastSaved # 0) =>
           bufferFile = FileOf(<< CsvRow(crash.fix) >> \o crash.pre.rows)

\* The process was killed while the temporary file held a partly written
\* row and buffer.csv held earlier entries.
C4_Witness ==
    /\ crash.at = "save_close"
    /\ crash.pre.rows # << >>
    /\ tmpFile.rows # << >>
    /\ tmpFile.rows[Len(tmpFile.rows)].torn

\* C5 (Atomic replace on drain): when the process is killed at a step of the
\* rewrite of buffer.csv by the drain, the file holds exactly the entries it
\* held before the drain or exactly the rows that failed.
C5_AtomicReplaceOnDrain ==
    crash.at \in {"flush_trunc", "flush_write"} =>
        \/ bufferFile = crash.pre
        \/ bufferFile = FileOf(crash.failed)

\* C6 (Partial-failure isolation): a drain over a healthy connection (open,
\* no aborted transaction, the sink reachable throughout) in which the rows
\* of F fail by themselves and at least one INSERT is executed attempts
\* every row, invokes commit, and leaves exactly the rows of F in buffer.csv.
C6_PartialFailureIsolation ==
    ( /\ pc = "flush_exit"
      /\ rows # << >>
      /\ ~drain.down /\ ~drain.closed0 /\ ~drain.aborted0
      /\ success_count > 0 ) =>
        /\ idx = Len(rows) + 1
        /\ drain.commit = "ok"
        /\ bufferFile = FileOf(RowsIn(rows, drain.own))

\* C7 (Poison-row isolation, GNSS_buffer_test.py): a drain over a healthy
\* connection attempts every row, also after one that fails, and leaves in
\* buffer.csv only the rows that failed by themselves.
C7_PoisonRowIsolation ==
    ( /\ pc = "flush_exit"
      /\ rows # << >>
      /\ ~drain.down /\ ~drain.closed0 /\ ~drain.aborted0 ) =>
        /\ idx = Len(rows) + 1
        /\ bufferFile.rows = RowsIn(rows, drain.own)

\* C8 (Commit failure during a drain): after commit raised, buffer.csv holds
\* exactly the entries it held when the drain began; a drain whose commit
\* did not raise has removed exactly the rows whose INSERT was executed in
\* that drain.
C8_CommitFailureKeepsBuffer ==
    /\ drain.commit = "raised" => bufferFile = pre
    /\ (pc = "flush_exit" /\ drain.commit = "ok") =>
           bufferFile = FileOf(RowsNotIn(pre.rows, drain.ok))

\* The commit of a drain raised after some INSERTs were executed and some
\* rows had failed.
C8_Witness ==
    pc = "flush_raise" /\ drain.ok # {} /\ remaining # << >>

\* A statement or a commit is issued on the connection.
IssuesSql ==
    \/ LiveExecute
    \/ LiveCommit
    \/ FlushCommit
    \/ (FlushRow /\ RowParses(rows[idx]))

\* C9 (Reconnect after commit failure): once a commit has raised on the
\* connection, no INSERT and no commit is issued on it (the handle is
\* replaced only by the next start of the process).
C9_ReconnectAfterCommitFailure == [][commitFailed => ~IssuesSql]_vars

\* C10 (Recovery after an outage): a drain during which the sink is
\* reachable, whose rows all parse and are all accepted by the server, begun
\* outside an aborted transaction, delivers every buffered fix and leaves
\* buffer.csv empty.
C10_RecoveryAfterOutage ==
    ( /\ pc = "flush_exit"
      /\ rows # << >>
      /\ ~drain.down /\ ~drain.aborted0
      /\ drain.own = {} ) =>
        /\ bufferFile.rows = << >>
        /\ \A i \in 1 .. Len(rows) : Committed(rows[i].ts)

\* The positions at which a statement or a commit is issued on the sink, or
\* at which an exception of the drain's commit is being handled.
SinkSteps ==
    {"live_execute", "live_commit", "flush_row", "flush_commit", "flush_raise"}

\* C11 (No sink fault terminates ingestion): after startup (the startup
\* drain included in startup), no step taken at an insert, at a commit or
\* in the handling of their exception leads to the end of the main loop.
C11_NoSinkFaultTerminates ==
    [][(pc \in SinkSteps /\ caller # "startup") => (pc' # "finally")]_vars

\* The positions inside save_to_buffer.
SavePositions == {"save"} \cup SaveSteps

\* C12 (Buffer write failure is survivable): no step taken inside
\* save_to_buffer, an I/O error included, leads to the end of the main loop.
C12_BufferWriteFailureSurvivable ==
    [][(pc \in SavePositions) => (pc' # "finally")]_vars

\* C13 (Periodic drain in quiet periods): once the drain interval has
\* elapsed, no loop iteration ends back at ser.readline() without having
\* reached the periodic check or a drain, whatever line it read.
C13_PeriodicDrainInQuietPeriods ==
    [][(pc = "loop" /\ due) => (pc' # "loop")]_vars

\* The positions of flush_buffer_to_db after the rows were read.
DrainSteps ==
    {"flush_row", "flush_commit", "flush_trunc", "flush_write", "flush_raise"}

\* C14 (Drain on empty is a no-op): a drain that found buffer.csv absent or
\* without entries reaches no INSERT, no commit, no rewrite and no
\* exception; it returns with the file as it was (both programs).
C14_DrainOnEmptyIsNoOp ==
    /\ pc \in DrainSteps => pre.rows # << >>
    /\ (pc = "flush_exit" /\ pre.rows = << >>) =>
           /\ bufferFile = pre
           /\ drain.ok = {} /\ drain.own = {} /\ drain.commit = "none"
           /\ idx = 0

\* A drain over an open connection returns from a buffer.csv that exists
\* and holds no entry.
C14_Witness ==
    pc = "flush_exit" /\ pre = FileOf(<< >>) /\ conn = "open"

\* C15 (Drain trigger): the step that leaves the live commit goes to a
\* drain called from the live path when the fix was committed, and to
\* save_to_buffer when the commit failed; the step that leaves the live
\* INSERT goes to the commit when the INSERT was executed, and to
\* save_to_buffer when it failed; the line after is read only when that
\* drain or append is over.
C15_DrainTrigger ==
    [][ /\ (pc = "live_commit" /\ pc' \notin {"live_commit", "stopped"}) =>
              IF \E r \in BagToSet(sink') : r.ts = cur.ts
              THEN pc' = "flush_read" /\ caller' = "live"
              ELSE pc' = "save"
        /\ (pc = "live_execute" /\ pc' \notin {"live_execute", "stopped"}) =>
              IF BagIn(cur, pending') THEN pc' = "live_commit"
              ELSE pc' = "save"
        /\ (pc \in {"live_execute", "live_commit", "save"} \cup SaveSteps) =>
              (pc' # "loop")
        /\ (pc \in {"flush_read"} \cup DrainSteps /\ caller = "live") =>
              (pc' # "loop") ]_vars

\* The drain after a committed live insert is about to read a buffer.csv
\* that holds entries.
C15_Witness ==
    /\ pc = "flush_read" /\ caller = "live"
    /\ bufferFile.rows # << >>
    /\ Committed(cur.ts)

\* C16 (Orderly exit): when the process has terminated by itself (it was
\* not killed), neither the serial port nor the database connection is
\* left open.
C16_OrderlyExit ==
    (pc = "stopped" /\ runs > 0 /\ crash.at = "") =>
        (ser # "open" /\ conn # "open")

\* The process has terminated by itself, the serial port it had opened is
\* closed, and the loop has consumed a fix in this or an earlier run.
C16_Witness ==
    pc = "stopped" /\ crash.at = "" /\ ser = "closed" /\ nextTs > 1

\* C17 (Insertion order preserved): the entries of buffer.csv are in the
\* order in which their fixes were appended, oldest first (timestamps grow
\* with every fix, and a drain keeps the order of the rows it retains).
C17_InsertionOrderPreserved ==
    \A i, j \in 1 .. Len(bufferFile.rows) :
        i < j => bufferFile.rows[i].ts < bufferFile.rows[j].ts

\* C18 (Buffer round-trip of absent values): every complete entry of
\* buffer.csv converts back, in the drain, to the parameters of an INSERT
\* (those the live insert of its fix carried), also when a value of the fix
\* is absent (both programs).
C18_AbsentValuesRoundTrip ==
    \A i \in 1 .. Len(bufferFile.rows) :
        ~bufferFile.rows[i].torn =>
            /\ RowParses(bufferFile.rows[i])
            /\ CsvRow(RowParams(bufferFile.rows[i])) = bufferFile.rows[i]

\* C19 (No pending insert of a buffered fix): when flush_buffer_to_db
\* returns, no fix that still has an entry in buffer.csv has an INSERT
\* pending uncommitted on the connection (both programs).
C19_NoPendingInsertOfBufferedFix ==
    pc = "flush_exit" =>
        \A r \in BagToSet(pending) : ~InFile(bufferFile, r.ts)

\* The positions at which the fix of the current iteration is being stored.
FixSteps == {"live_execute", "live_commit"} \cup SavePositions

====
